---- MODULE Spec2Model ----
(***************************************************************************)
(* The SPSC ring buffer of internal/queue (RingBuffer[T]): Push, Pop and   *)
(* Len run by goroutines that interleave at every atomic load, atomic      *)
(* store, compare-and-swap and slot access; the ChannelQueue of the same   *)
(* package, the cancelers of internal/cancel and the tickers of            *)
(* internal/tick.                                                          *)
(***************************************************************************)
EXTENDS Integers, Sequences, FiniteSets, TLC

\* ------------------------------------------------------------------ bounds

\* Largest size argument given to NewRingBuffer.
MaxSize == 2
\* Values pushed are 1..MaxVal; Zero is Go's zero value of T.
MaxVal == 2
\* Calls (Push, Pop, Len) started in one run of two goroutines.
MaxCalls == 6
\* Calls started in one run of a single goroutine.
MaxSeqCalls == 6
\* Goroutines of the misuse scenario (any goroutine calls Push and Pop).
NThreads == 3
\* Calls started in one run of the misuse scenario.
MaxMisuseCalls == 3
\* Width in bits of the cursors (atomic.Uint64 in the source, scaled down).
CursorBits == 5
\* Calls started in one run that begins with NewRingBuffer.
MaxNewCalls == 4
\* Calls made on each queue when a RingBuffer and a ChannelQueue are given the
\* same calls.
MaxEquivCalls == 4
\* Calls started in one run of goroutines sharing a canceler.
MaxCancelCalls == 4
\* Calls made in one run of a single goroutine on the cancelers.
MaxCancelSeqCalls == 6
\* Highest reading of the clock of the tickers (nanotime(), rdtsc(),
\* time.Now()).
MaxClock == 3
\* Highest interval given to a ticker.
MaxInterval == 2
\* Largest magnitude of a negative interval given to an AtomicTicker, whose
\* interval is an int64.
MaxNegInterval == 1
\* Tick() and Reset() calls started in one run on a ticker.
MaxTickCalls == 4
\* Highest every given to NewBatch.
MaxEvery == 2
\* Tick() calls started in one run of goroutines sharing a BatchTicker.
MaxBatchCalls == 2
\* Calls started in one run in which a third goroutine calls Len.
MaxLenCalls == 4
\* Largest magnitude of a negative every given to NewBatch.
MaxNegEvery == 1
\* Tick() and Reset() calls started in one run of one goroutine on a
\* BatchTicker.
MaxBatchSeqCalls == 5

Zero == 0
\* What ret holds for a goroutine that has not finished a call yet.
NoResult == [op |-> "none", arg |-> Zero, ok |-> FALSE, val |-> Zero, panic |-> FALSE]
Values == 1..MaxVal
Threads == 1..NThreads
Modulus == 2^CursorBits
\* The int type has the width of the cursors.
MaxInt == (Modulus \div 2) - 1
MinInt == -(Modulus \div 2)

\* ------------------------------------------------------- unsigned arithmetic

\* a - b on unsigned cursors.
Sub64(a, b) == (a - b + Modulus) % Modulus

\* a + b on unsigned cursors.
Add64(a, b) == (a + b) % Modulus

\* a & b, bit by bit.
RECURSIVE BitAnd(_, _)
BitAnd(a, b) ==
    IF a = 0 \/ b = 0 THEN 0
    ELSE (a % 2) * (b % 2) + 2 * BitAnd(a \div 2, b \div 2)

\* int(x) of an unsigned x: two's complement.
ToInt(x) == IF x >= Modulus \div 2 THEN x - Modulus ELSE x

\* ------------------------------------------------------------------- state

VARIABLES
    buf,         \* r.buf: slot index -> value
    mask,        \* r.mask
    head,        \* r.head
    tail,        \* r.tail
    pushActive,  \* r.pushActive
    popActive,   \* r.popActive
    pc,          \* per goroutine: where it is in its current call
    arg,         \* per goroutine: v of the Push in progress
    lhead,       \* per goroutine: local head
    ltail,       \* per goroutine: local tail
    lv,          \* per goroutine: local v of Pop
    producers,   \* goroutines that call Push
    consumers,   \* goroutines that call Pop
    pushed,      \* values published by Push (appended with the head store)
    popped,      \* values returned by Pop with ok = true, in order of return
    ret,         \* per goroutine: the result of its last call that ended
    log,         \* results of all calls in order, kept while one goroutine
                 \* alone drives the buffer
    ncalls,      \* calls started
    maxcalls,    \* calls this run may start
    ctor,        \* NewRingBuffer: where it is, its size argument, its local n
    ch,          \* ChannelQueue: the values buffered in q.ch, oldest first
    chcap,       \* ChannelQueue: cap(q.ch)
    chret,       \* ChannelQueue: the result of the last call
    chcalls,     \* ChannelQueue: calls made
    adone,       \* AtomicCanceler.done
    cclosed,     \* ContextCanceler: c.ctx is cancelled, c.ctx.Done() is closed
    ckind,       \* the canceler of the run: "atomic", "context", or "both" when
                 \* one goroutine makes each call on one and then on the other
    cusers,      \* goroutines that call the canceler
    cpc,         \* per goroutine: where it is in its canceler call, on which one
    cres,        \* per goroutine: what its last Done() returned, and whether a
                 \* Cancel() had returned before that Done() began
    creturned,   \* per canceler: a Cancel() has returned
    cancels,     \* per canceler: Cancel() calls begun
    clog,        \* per canceler: the calls in order, kept while one goroutine
                 \* alone calls
    ccalls,      \* canceler calls started
    tkind,       \* the ticker of the run: "atomic", "tsc" or "batch"
    clock,       \* what nanotime(), rdtsc() and time.Now() return now
    interval,    \* a.interval, t.intervalCycles, b.interval
    lastTick,    \* a.lastTick, t.lastTick, b.lastTick
    every,       \* b.every
    count,       \* b.count
    pollers,     \* goroutines that call the ticker
    tpc,         \* per goroutine: where it is in its ticker call
    tnow,        \* per goroutine: local now
    tlast,       \* per goroutine: local last
    tcnt,        \* per goroutine: the value of b.count it works with
    tlog,        \* the ticker calls in order of their end: the clock reading,
                 \* the lastTick loaded and the result of each
    tcalls,      \* ticker calls started
    consulted,   \* time.Now() calls made by BatchTicker.Tick
    observers    \* goroutines that call Len and Cap only

rb == <<buf, mask, head, tail, pushActive, popActive>>
locals == <<pc, arg, lhead, ltail, lv>>
\* The ChannelQueue and its caller.
chq == <<ch, chcap, chret, chcalls>>
\* The cancelers and their callers.
cn == <<adone, cclosed, ckind, cusers, cpc, cres, creturned, cancels, clog, ccalls>>
\* The ticker and its callers.
tk == <<tkind, clock, interval, lastTick, every, count, pollers, tpc, tnow, tlast,
        tcnt, tlog, tcalls, consulted>>
\* What no call on a RingBuffer touches.
others == <<chq, cn, tk, observers>>
roles == <<producers, consumers, maxcalls, ctor, others>>
\* The RingBuffer, its goroutines and their history.
ring == <<rb, locals, producers, consumers, maxcalls, ctor, pushed, popped, ret, log,
          ncalls, observers>>
vars == <<buf, mask, head, tail, pushActive, popActive, pc, arg, lhead, ltail,
          lv, producers, consumers, pushed, popped, ret, log, ncalls, maxcalls,
          ctor, others>>

\* len(r.buf)
BufLen == Cardinality(DOMAIN buf)

\* ------------------------------------------------------------ construction

\* uint64(size) of an int size.
ToUint(size) == size % Modulus

\* The rounding loop of NewRingBuffer: n <<= 1 while n < uint64(size).
\* n <<= 1
RoundStep(n) == (n * 2) % Modulus

\* Mutant of LoopCond: off by one, <= for <.
LoopCondOffByOne(n, usize) == n <= usize

\* The loop condition of NewRingBuffer: n < uint64(size)
LoopCond(n, usize) == n < usize

RECURSIVE RoundUp(_, _)
RoundUp(n, usize) == IF LoopCond(n, usize) THEN RoundUp(RoundStep(n), usize) ELSE n

\* Mutant of Alloc: the mask is the length, not the length minus one.
AllocMaskLen(n) ==
    [buf |-> [i \in 0..(n - 1) |-> Zero], mask |-> n,
     head |-> 0, tail |-> 0, pushActive |-> 0, popActive |-> 0]

\* &RingBuffer[T]{buf: make([]T, n), mask: n - 1}: the other fields are zero.
Alloc(n) ==
    [buf |-> [i \in 0..(n - 1) |-> Zero], mask |-> n - 1,
     head |-> 0, tail |-> 0, pushActive |-> 0, popActive |-> 0]

\* NewRingBuffer(size): the fields of the new buffer.
NewRingBuffer(size) == Alloc(RoundUp(1, ToUint(size)))

\* NewRingBuffer(size) has returned.
Constructed(size) ==
    [pc |-> "done", size |-> size, n |-> RoundUp(1, ToUint(size))]

InitBuffer(size) ==
    LET r == NewRingBuffer(size) IN
    /\ buf = r.buf
    /\ mask = r.mask
    /\ head = r.head
    /\ tail = r.tail
    /\ pushActive = r.pushActive
    /\ popActive = r.popActive

InitLocals ==
    /\ pc = [t \in Threads |-> "idle"]
    /\ arg = [t \in Threads |-> Zero]
    /\ lhead = [t \in Threads |-> 0]
    /\ ltail = [t \in Threads |-> 0]
    /\ lv = [t \in Threads |-> Zero]
    /\ pushed = <<>>
    /\ popped = <<>>
    /\ ret = [t \in Threads |-> NoResult]
    /\ log = <<>>
    /\ ncalls = 0

\* No ChannelQueue has been made.
NoChannel ==
    /\ ch = <<>>
    /\ chcap = 0
    /\ chret = NoResult
    /\ chcalls = 0

\* The two kinds of canceler.
Cancelers == {"atomic", "context"}

\* A goroutine that is in no canceler call.
CIdle == [at |-> "idle", obj |-> "none"]

\* A goroutine that has not called Done() yet.
NoDone == [op |-> "none", val |-> FALSE, late |-> FALSE]

\* NewAtomic() and NewContext(context.Background()): neither is cancelled.
NewCancelers ==
    /\ adone = FALSE
    /\ cclosed = FALSE
    /\ cpc = [t \in Threads |-> CIdle]
    /\ cres = [t \in Threads |-> NoDone]
    /\ creturned = [o \in Cancelers |-> FALSE]
    /\ cancels = [o \in Cancelers |-> 0]
    /\ clog = [o \in Cancelers |-> <<>>]
    /\ ccalls = 0

\* No goroutine uses a canceler.
NoCanceler ==
    /\ NewCancelers
    /\ ckind = "none"
    /\ cusers = {}

\* No call of a ticker is in progress and none has been made.
TIdle ==
    /\ tpc = [t \in Threads |-> "idle"]
    /\ tnow = [t \in Threads |-> 0]
    /\ tlast = [t \in Threads |-> 0]
    /\ tcnt = [t \in Threads |-> 0]
    /\ tlog = <<>>
    /\ tcalls = 0
    /\ consulted = 0

\* No ticker has been made.
NoTicker ==
    /\ tkind = "none"
    /\ clock = 0
    /\ interval = 0
    /\ lastTick = 0
    /\ every = 0
    /\ count = 0
    /\ pollers = {}
    /\ TIdle

\* A run on a RingBuffer alone.
InitOthers == NoChannel /\ NoCanceler /\ NoTicker

\* No RingBuffer has been made and no goroutine calls one.
NoRing ==
    /\ observers = {}
    /\ buf = <<>>
    /\ mask = 0
    /\ head = 0
    /\ tail = 0
    /\ pushActive = 0
    /\ popActive = 0
    /\ InitLocals
    /\ producers = {}
    /\ consumers = {}
    /\ maxcalls = 0
    /\ ctor = [pc |-> "none", size |-> 0, n |-> 0]

\* Correct use: goroutine 1 calls Push; Pop is called by goroutine 1 too or
\* by goroutine 2.
Init ==
    /\ observers = {}
    /\ \E size \in 1..MaxSize : InitBuffer(size) /\ ctor = Constructed(size)
    /\ InitLocals
    /\ InitOthers
    /\ producers = {1}
    /\ \E c \in {1, 2} :
          /\ consumers = {c}
          /\ maxcalls = IF c = 1 THEN MaxSeqCalls ELSE MaxCalls

\* Misuse: every goroutine calls Push and Pop on one buffer, of one slot so
\* that the few calls of a run meet it full as well as empty.
InitMisuse ==
    /\ observers = {}
    /\ InitBuffer(1) /\ ctor = Constructed(1)
    /\ InitLocals
    /\ InitOthers
    /\ producers = Threads
    /\ consumers = Threads
    /\ maxcalls = MaxMisuseCalls

\* ------------------------------------------------------------------ helpers

\* Mutant of CompareAndSwap: a plain store, which never fails.
CompareAndSwapBlind(cur, old, new) == [swapped |-> TRUE, val |-> new]

\* atomic CompareAndSwap(old, new) on a flag holding cur: whether it swapped,
\* and the value the flag holds afterwards.
CompareAndSwap(cur, old, new) ==
    IF cur = old THEN [swapped |-> TRUE, val |-> new]
    ELSE [swapped |-> FALSE, val |-> cur]

\* Mutant of PushFull: off by one, > for >=.
PushFullOffByOne(h, t, n) == Sub64(h, t) > n

\* Mutant of PushFull: one slot kept free, as in rings that tell full from
\* empty by the indices alone.
PushFullReserve(h, t, n) == Sub64(h, t) >= n - 1

\* Push's full check: head-tail >= uint64(len(r.buf))
PushFull(h, t, n) == Sub64(h, t) >= n

\* Mutant of PopEmpty: off by one, > for >=.
PopEmptyOffByOne(t, h) == t > h

\* Mutant of PopEmpty: the last element counts as none.
PopEmptyLast(t, h) == t + 1 >= h

\* Pop's empty check: tail >= head
PopEmpty(t, h) == t >= h

\* The physical slot of a cursor: cursor & r.mask
Slot(cursor, m) == BitAnd(cursor, m)

\* A call's result as the caller sees it.
Result(op, a, ok, val, panicked) ==
    [op |-> op, arg |-> a, ok |-> ok, val |-> val, panic |-> panicked]

\* One goroutine alone drives the buffer: its calls are sequential.
Sequential == producers = consumers /\ Cardinality(producers) = 1

\* Goroutine t's call ends with result r.
Ends(t, r) ==
    /\ ret' = [ret EXCEPT ![t] = r]
    /\ log' = IF Sequential THEN Append(log, r) ELSE log

\* A goroutine goes back to its caller: its locals are dead.
Return(t) ==
    /\ pc' = [pc EXCEPT ![t] = "idle"]
    /\ arg' = [arg EXCEPT ![t] = Zero]
    /\ lhead' = [lhead EXCEPT ![t] = 0]
    /\ ltail' = [ltail EXCEPT ![t] = 0]
    /\ lv' = [lv EXCEPT ![t] = Zero]

\* The places of a Push between its successful guard and its release.
PushBody == {"push_load_head", "push_load_tail", "push_write", "push_store_head",
             "push_ret_true", "push_ret_false"}

\* The places of a Pop between its successful guard and its release.
PopBody == {"pop_load_tail", "pop_load_head", "pop_read", "pop_store_tail",
            "pop_ret_true", "pop_ret_false"}

\* Goroutines between the successful guard and the release of Push, of Pop.
InPush == {t \in Threads : pc[t] \in PushBody}
InPop == {t \in Threads : pc[t] \in PopBody}

\* -------------------------------------------------------------------- Push

\* Mutant of PushEnter: the release is deferred before the guard, so the
\* rejected call stores 0 too.
PushEnterDeferFirst(t, v) ==
    /\ pc[t] = "idle"
    /\ t \in producers
    /\ LET cas == CompareAndSwap(pushActive, 0, 1) IN
       IF cas.swapped
       THEN /\ pushActive' = cas.val
            /\ pc' = [pc EXCEPT ![t] = "push_load_head"]
            /\ arg' = [arg EXCEPT ![t] = v]
            /\ UNCHANGED <<ret, log>>
       ELSE /\ pushActive' = 0
            /\ Ends(t, Result("push", v, FALSE, Zero, TRUE))
            /\ UNCHANGED <<pc, arg>>
    /\ UNCHANGED <<buf, mask, head, tail, popActive, lhead, ltail, lv, roles, pushed,
                   popped>>

\* Push entry: the guard's CompareAndSwap(0, 1); panic if it fails, else the
\* release of the flag is deferred and the body runs.
PushEnter(t, v) ==
    /\ pc[t] = "idle"
    /\ t \in producers
    /\ LET cas == CompareAndSwap(pushActive, 0, 1) IN
       /\ pushActive' = cas.val
       /\ IF cas.swapped
          THEN /\ pc' = [pc EXCEPT ![t] = "push_load_head"]
               /\ arg' = [arg EXCEPT ![t] = v]
               /\ UNCHANGED <<ret, log>>
          ELSE /\ Ends(t, Result("push", v, FALSE, Zero, TRUE))
               /\ UNCHANGED <<pc, arg>>
    /\ UNCHANGED <<buf, mask, head, tail, popActive, lhead, ltail, lv, roles, pushed,
                   popped>>

\* A Push call of a run that starts a bounded number of calls.
PushGuard(t, v) ==
    /\ ncalls < maxcalls
    /\ ncalls' = ncalls + 1
    /\ PushEnter(t, v)

\* head := r.head.Load()
PushLoadHead(t) ==
    /\ pc[t] = "push_load_head"
    /\ lhead' = [lhead EXCEPT ![t] = head]
    /\ pc' = [pc EXCEPT ![t] = "push_load_tail"]
    /\ UNCHANGED <<rb, arg, ltail, lv, roles, pushed, popped, ret, log, ncalls>>

\* Mutant of PushLoadTail: a blocking Push, which loads tail again and again
\* while the buffer is full.
PushLoadTailSpin(t) ==
    /\ pc[t] = "push_load_tail"
    /\ ltail' = [ltail EXCEPT ![t] = tail]
    /\ pc' = [pc EXCEPT ![t] = IF PushFull(lhead[t], tail, BufLen)
                               THEN "push_load_tail" ELSE "push_write"]
    /\ UNCHANGED <<rb, arg, lhead, lv, roles, pushed, popped, ret, log, ncalls>>

\* Mutant of PushLoadTail: the slot is written before the full check.
PushLoadTailWriteFirst(t) ==
    /\ pc[t] = "push_load_tail"
    /\ ltail' = [ltail EXCEPT ![t] = tail]
    /\ buf' = [buf EXCEPT ![Slot(lhead[t], mask)] = arg[t]]
    /\ pc' = [pc EXCEPT ![t] = IF PushFull(lhead[t], tail, BufLen)
                               THEN "push_ret_false" ELSE "push_write"]
    /\ UNCHANGED <<mask, head, tail, pushActive, popActive, arg, lhead, lv, roles,
                   pushed, popped, ret, log, ncalls>>

\* tail := r.tail.Load(), then the full check
PushLoadTail(t) ==
    /\ pc[t] = "push_load_tail"
    /\ ltail' = [ltail EXCEPT ![t] = tail]
    /\ pc' = [pc EXCEPT ![t] = IF PushFull(lhead[t], tail, BufLen)
                               THEN "push_ret_false" ELSE "push_write"]
    /\ UNCHANGED <<rb, arg, lhead, lv, roles, pushed, popped, ret, log, ncalls>>

\* Mutant of PushWrite: the two stores in the other order, head is published
\* first and the slot is written after it.
PushWritePublishFirst(t) ==
    /\ pc[t] = "push_write"
    /\ IF head = lhead[t]
       THEN /\ head' = Add64(lhead[t], 1)
            /\ pushed' = Append(pushed, arg[t])
            /\ UNCHANGED <<buf, pc>>
       ELSE /\ buf' = [buf EXCEPT ![Slot(lhead[t], mask)] = arg[t]]
            /\ pc' = [pc EXCEPT ![t] = "push_ret_true"]
            /\ UNCHANGED <<head, pushed>>
    /\ UNCHANGED <<mask, tail, pushActive, popActive, arg, lhead, ltail, lv, roles,
                   popped, ret, log, ncalls>>

\* Mutant of PushWrite: the slot after head is written.
PushWriteNext(t) ==
    /\ pc[t] = "push_write"
    /\ buf' = [buf EXCEPT ![Slot(Add64(lhead[t], 1), mask)] = arg[t]]
    /\ pc' = [pc EXCEPT ![t] = "push_store_head"]
    /\ UNCHANGED <<mask, head, tail, pushActive, popActive, arg, lhead, ltail, lv,
                   roles, pushed, popped, ret, log, ncalls>>

\* r.buf[head&r.mask] = v
PushWrite(t) ==
    /\ pc[t] = "push_write"
    /\ buf' = [buf EXCEPT ![Slot(lhead[t], mask)] = arg[t]]
    /\ pc' = [pc EXCEPT ![t] = "push_store_head"]
    /\ UNCHANGED <<mask, head, tail, pushActive, popActive, arg, lhead, ltail, lv,
                   roles, pushed, popped, ret, log, ncalls>>

\* r.head.Store(head + 1)
PushStoreHead(t) ==
    /\ pc[t] = "push_store_head"
    /\ head' = Add64(lhead[t], 1)
    /\ pushed' = Append(pushed, arg[t])
    /\ pc' = [pc EXCEPT ![t] = "push_ret_true"]
    /\ UNCHANGED <<buf, mask, tail, pushActive, popActive, arg, lhead, ltail, lv,
                   roles, popped, ret, log, ncalls>>

\* Mutant of PushReturn: the release of the flag is not deferred, so the
\* flag stays set.
PushReturnNoRelease(t) ==
    /\ pc[t] \in {"push_ret_true", "push_ret_false"}
    /\ pushActive' = pushActive
    /\ Ends(t, Result("push", arg[t], pc[t] = "push_ret_true", Zero, FALSE))
    /\ Return(t)
    /\ UNCHANGED <<buf, mask, head, tail, popActive, roles, pushed, popped, ncalls>>

\* return: the deferred r.pushActive.Store(0) runs, Push returns true or false
PushReturn(t) ==
    /\ pc[t] \in {"push_ret_true", "push_ret_false"}
    /\ pushActive' = 0
    /\ Ends(t, Result("push", arg[t], pc[t] = "push_ret_true", Zero, FALSE))
    /\ Return(t)
    /\ UNCHANGED <<buf, mask, head, tail, popActive, roles, pushed, popped, ncalls>>

\* --------------------------------------------------------------------- Pop

\* Pop entry: the guard's CompareAndSwap(0, 1); panic if it fails.
PopEnter(t) ==
    /\ pc[t] = "idle"
    /\ t \in consumers
    /\ LET cas == CompareAndSwap(popActive, 0, 1) IN
       /\ popActive' = cas.val
       /\ IF cas.swapped
          THEN /\ pc' = [pc EXCEPT ![t] = "pop_load_tail"]
               /\ UNCHANGED <<ret, log>>
          ELSE /\ Ends(t, Result("pop", Zero, FALSE, Zero, TRUE))
               /\ pc' = pc
    /\ UNCHANGED <<buf, mask, head, tail, pushActive, arg, lhead, ltail, lv, roles, pushed,
                   popped>>

\* A Pop call of a run that starts a bounded number of calls.
PopGuard(t) ==
    /\ ncalls < maxcalls
    /\ ncalls' = ncalls + 1
    /\ PopEnter(t)

\* tail := r.tail.Load()
PopLoadTail(t) ==
    /\ pc[t] = "pop_load_tail"
    /\ ltail' = [ltail EXCEPT ![t] = tail]
    /\ pc' = [pc EXCEPT ![t] = "pop_load_head"]
    /\ UNCHANGED <<rb, arg, lhead, lv, roles, pushed, popped, ret, log, ncalls>>

\* head := r.head.Load(), then the empty check
PopLoadHead(t) ==
    /\ pc[t] = "pop_load_head"
    /\ lhead' = [lhead EXCEPT ![t] = head]
    /\ pc' = [pc EXCEPT ![t] = IF PopEmpty(ltail[t], head)
                               THEN "pop_ret_false" ELSE "pop_read"]
    /\ UNCHANGED <<rb, arg, ltail, lv, roles, pushed, popped, ret, log, ncalls>>

\* Mutant of PopRead: the slot is cleared once it is read.
PopReadClear(t) ==
    /\ pc[t] = "pop_read"
    /\ lv' = [lv EXCEPT ![t] = buf[Slot(ltail[t], mask)]]
    /\ pc' = [pc EXCEPT ![t] = "pop_store_tail"]
    /\ buf' = [buf EXCEPT ![Slot(ltail[t], mask)] = Zero]
    /\ UNCHANGED <<mask, head, tail, pushActive, popActive, arg, lhead, ltail,
                   roles, pushed, popped, ret, log, ncalls>>

\* v := r.buf[tail&r.mask]
PopRead(t) ==
    /\ pc[t] = "pop_read"
    /\ lv' = [lv EXCEPT ![t] = buf[Slot(ltail[t], mask)]]
    /\ pc' = [pc EXCEPT ![t] = "pop_store_tail"]
    /\ UNCHANGED <<rb, arg, lhead, ltail, roles, pushed, popped, ret, log, ncalls>>

\* Mutant of PopStoreTail: the head that was loaded is published as the tail.
PopStoreTailHead(t) ==
    /\ pc[t] = "pop_store_tail"
    /\ tail' = lhead[t]
    /\ pc' = [pc EXCEPT ![t] = "pop_ret_true"]
    /\ UNCHANGED <<buf, mask, head, pushActive, popActive, arg, lhead, ltail, lv,
                   roles, pushed, popped, ret, log, ncalls>>

\* r.tail.Store(tail + 1)
PopStoreTail(t) ==
    /\ pc[t] = "pop_store_tail"
    /\ tail' = Add64(ltail[t], 1)
    /\ pc' = [pc EXCEPT ![t] = "pop_ret_true"]
    /\ UNCHANGED <<buf, mask, head, pushActive, popActive, arg, lhead, ltail, lv,
                   roles, pushed, popped, ret, log, ncalls>>

\* Mutant of PopReturn: the release of the flag is not deferred, so the
\* flag stays set.
PopReturnNoRelease(t) ==
    /\ pc[t] \in {"pop_ret_true", "pop_ret_false"}
    /\ popActive' = popActive
    /\ IF pc[t] = "pop_ret_true"
       THEN /\ Ends(t, Result("pop", Zero, TRUE, lv[t], FALSE))
            /\ popped' = Append(popped, lv[t])
       ELSE /\ Ends(t, Result("pop", Zero, FALSE, Zero, FALSE))
            /\ popped' = popped
    /\ Return(t)
    /\ UNCHANGED <<buf, mask, head, tail, pushActive, roles, pushed, ncalls>>

\* return: the deferred r.popActive.Store(0) runs, Pop returns (v, true) or
\* (zero, false)
PopReturn(t) ==
    /\ pc[t] \in {"pop_ret_true", "pop_ret_false"}
    /\ popActive' = 0
    /\ IF pc[t] = "pop_ret_true"
       THEN /\ Ends(t, Result("pop", Zero, TRUE, lv[t], FALSE))
            /\ popped' = Append(popped, lv[t])
       ELSE /\ Ends(t, Result("pop", Zero, FALSE, Zero, FALSE))
            /\ popped' = popped
    /\ Return(t)
    /\ UNCHANGED <<buf, mask, head, tail, pushActive, roles, pushed, ncalls>>

\* --------------------------------------------------------------------- Len

\* head := r.head.Load()
LenLoadHead(t) ==
    /\ pc[t] = "idle"
    /\ t \in producers \cup consumers \cup observers
    /\ ncalls < maxcalls
    /\ ncalls' = ncalls + 1
    /\ lhead' = [lhead EXCEPT ![t] = head]
    /\ pc' = [pc EXCEPT ![t] = "len_load_tail"]
    /\ UNCHANGED <<rb, arg, ltail, lv, roles, pushed, popped, ret, log>>

\* Mutant of LenLoadTail: the difference is masked like a slot index, so a
\* full buffer has length 0.
LenLoadTailMasked(t) ==
    /\ pc[t] = "len_load_tail"
    /\ Ends(t, Result("len", Zero, TRUE, Slot(Sub64(lhead[t], tail), mask), FALSE))
    /\ Return(t)
    /\ UNCHANGED <<rb, roles, pushed, popped, ncalls>>

\* tail := r.tail.Load(); return int(head - tail)
LenLoadTail(t) ==
    /\ pc[t] = "len_load_tail"
    /\ Ends(t, Result("len", Zero, TRUE, ToInt(Sub64(lhead[t], tail)), FALSE))
    /\ Return(t)
    /\ UNCHANGED <<rb, roles, pushed, popped, ncalls>>

\* --------------------------------------------------------------------- Cap

\* return len(r.buf)
CapCall(t) ==
    /\ pc[t] = "idle"
    /\ t \in producers \cup consumers \cup observers
    /\ ncalls < maxcalls
    /\ ncalls' = ncalls + 1
    /\ Ends(t, Result("cap", Zero, TRUE, BufLen, FALSE))
    /\ UNCHANGED <<rb, locals, roles, pushed, popped>>

\* ----------------------------------------------------------- NewRingBuffer

\* No buffer yet: NewRingBuffer(size) is entered with n := 1, for any int size.
InitNew ==
    /\ observers = {}
    /\ buf = <<>>
    /\ mask = 0
    /\ head = 0
    /\ tail = 0
    /\ pushActive = 0
    /\ popActive = 0
    /\ InitLocals
    /\ InitOthers
    /\ producers = {1}
    /\ \E c \in {1, 2} : consumers = {c}
    /\ maxcalls = MaxNewCalls
    /\ \E size \in MinInt..MaxInt : ctor = [pc |-> "loop", size |-> size, n |-> 1]

\* make([]T, n) panics when n is no int.
MakePanics(n) == n > MaxInt

\* for n < uint64(size) { n <<= 1 }: one iteration
NewLoop ==
    /\ ctor.pc = "loop"
    /\ LoopCond(ctor.n, ToUint(ctor.size))
    /\ ctor' = [ctor EXCEPT !.n = RoundStep(ctor.n)]
    /\ UNCHANGED <<rb, locals, producers, consumers, maxcalls, others, pushed, popped,
                   ret, log, ncalls>>

\* the loop ends: the buffer is made and returned, or make panics
NewReturn ==
    /\ ctor.pc = "loop"
    /\ ~LoopCond(ctor.n, ToUint(ctor.size))
    /\ IF MakePanics(ctor.n)
       THEN /\ ctor' = [ctor EXCEPT !.pc = "panicked"]
            /\ UNCHANGED rb
       ELSE /\ ctor' = [ctor EXCEPT !.pc = "done"]
            /\ LET r == Alloc(ctor.n) IN
               /\ buf' = r.buf
               /\ mask' = r.mask
               /\ head' = r.head
               /\ tail' = r.tail
               /\ pushActive' = r.pushActive
               /\ popActive' = r.popActive
    /\ UNCHANGED <<locals, producers, consumers, maxcalls, others, pushed, popped, ret,
                   log, ncalls>>

\* ------------------------------------------------------------ specification

Next ==
    \E t \in Threads :
        \/ \E v \in Values : PushGuard(t, v)
        \/ PushLoadHead(t)
        \/ PushLoadTail(t)
        \/ PushWrite(t)
        \/ PushStoreHead(t)
        \/ PushReturn(t)
        \/ PopGuard(t)
        \/ PopLoadTail(t)
        \/ PopLoadHead(t)
        \/ PopRead(t)
        \/ PopStoreTail(t)
        \/ PopReturn(t)
        \/ LenLoadHead(t)
        \/ LenLoadTail(t)

\* One producer and one consumer.
Spec == Init /\ [][Next]_vars

\* Any goroutine in any role.
SpecMisuse == InitMisuse /\ [][Next]_vars

\* NewRingBuffer runs, then the buffer it returned is used.
NextNew ==
    \/ NewLoop
    \/ NewReturn
    \/ ctor.pc = "done" /\ Next
    \/ ctor.pc = "done" /\ \E t \in Threads : CapCall(t)

\* Construction followed by correct use.
SpecNew == InitNew /\ [][NextNew]_vars

\* Any goroutine in any role, but a Push begins only when no Push is in
\* progress and a Pop only when no Pop is.
NextSerial ==
    \E t \in Threads :
        \/ InPush = {} /\ \E v \in Values : PushGuard(t, v)
        \/ PushLoadHead(t)
        \/ PushLoadTail(t)
        \/ PushWrite(t)
        \/ PushStoreHead(t)
        \/ PushReturn(t)
        \/ InPop = {} /\ PopGuard(t)
        \/ PopLoadTail(t)
        \/ PopLoadHead(t)
        \/ PopRead(t)
        \/ PopStoreTail(t)
        \/ PopReturn(t)

\* Calls of one role made by different goroutines one after the other.
SpecSerial == InitMisuse /\ [][NextSerial]_vars

\* NewRingBuffer alone: its loop and its return.
NextCtor ==
    \/ NewLoop
    \/ NewReturn

\* The goroutine that calls NewRingBuffer keeps running: an iteration that
\* can be taken is taken, and so is the return.
SpecCtor ==
    /\ InitNew
    /\ [][NextCtor]_vars
    /\ WF_vars(NewLoop)
    /\ WF_vars(NewReturn)

\* count of TestRingBuffer_SPSC_Valid, larger than every capacity of the run.
Count == 2 * MaxSize + 1

\* The producer's loop variable i: the number of its Pushes that returned
\* true (read while the producer is between two calls).
ProducerI == Len(pushed)

\* The consumer's received: the number of its Pops that returned ok.
Received == Len(popped)

\* The test's buffer, goroutine 1 its producer and goroutine 2 its consumer.
InitValid ==
    /\ observers = {}
    /\ \E size \in 1..MaxSize : InitBuffer(size) /\ ctor = Constructed(size)
    /\ InitLocals
    /\ InitOthers
    /\ producers = {1}
    /\ consumers = {2}
    /\ maxcalls = 0

\* for i := 0; i < count; i++ { for !q.Push(i) {} }: the next call
ProducerCall ==
    /\ ProducerI < Count
    /\ PushEnter(1, ProducerI)
    /\ UNCHANGED ncalls

\* for received < count { if val, ok := q.Pop(); ok { ... } }: the next call
ConsumerCall ==
    /\ Received < Count
    /\ PopEnter(2)
    /\ UNCHANGED ncalls

\* A step of the producer goroutine.
ProducerStep ==
    \/ ProducerCall
    \/ PushLoadHead(1)
    \/ PushLoadTail(1)
    \/ PushWrite(1)
    \/ PushStoreHead(1)
    \/ PushReturn(1)

\* A step of the consumer goroutine.
ConsumerStep ==
    \/ ConsumerCall
    \/ PopLoadTail(2)
    \/ PopLoadHead(2)
    \/ PopRead(2)
    \/ PopStoreTail(2)
    \/ PopReturn(2)

NextValid == ProducerStep \/ ConsumerStep

\* The test's two goroutines, each scheduled again and again while it has a
\* step to take.
SpecValid ==
    /\ InitValid
    /\ [][NextValid]_vars
    /\ WF_vars(ProducerStep)
    /\ WF_vars(ConsumerStep)

\* Pushes that take head past the width of the cursors and on until the
\* buffer is full again.
WrapCount == Modulus + MaxSize + 1

\* The producer and the consumer of the test, with a count that takes the
\* cursors past their width.
InitWrap ==
    /\ observers = {}
    /\ \E size \in 1..MaxSize : InitBuffer(size) /\ ctor = Constructed(size)
    /\ InitLocals
    /\ InitOthers
    /\ producers = {1}
    /\ consumers = {2}
    /\ maxcalls = WrapCount

\* for i := 0; i < count; i++ { for !q.Push(i) {} }: the next call
WrapProducerCall ==
    /\ ProducerI < maxcalls
    /\ PushEnter(1, ProducerI)
    /\ UNCHANGED ncalls

\* for received < count { if val, ok := q.Pop(); ok { ... } }: the next call
WrapConsumerCall ==
    /\ Received < maxcalls
    /\ PopEnter(2)
    /\ UNCHANGED ncalls

NextWrap ==
    \/ WrapProducerCall
    \/ PushLoadHead(1)
    \/ PushLoadTail(1)
    \/ PushWrite(1)
    \/ PushStoreHead(1)
    \/ PushReturn(1)
    \/ WrapConsumerCall
    \/ PopLoadTail(2)
    \/ PopLoadHead(2)
    \/ PopRead(2)
    \/ PopStoreTail(2)
    \/ PopReturn(2)

SpecWrap == InitWrap /\ [][NextWrap]_vars

\* Goroutine 1 calls Push, goroutine 2 calls Pop, and goroutine 3 calls Len
\* and Cap while they run.
InitLen ==
    /\ \E size \in 1..MaxSize : InitBuffer(size) /\ ctor = Constructed(size)
    /\ InitLocals
    /\ NoChannel
    /\ NoCanceler
    /\ NoTicker
    /\ producers = {1}
    /\ consumers = {2}
    /\ observers = {3}
    /\ maxcalls = MaxLenCalls

SpecLen == InitLen /\ [][Next]_vars

\* ------------------------------------------------------------ ChannelQueue

\* NewChannel(size): make(chan T, size)
NewChannel(size) == [ch |-> <<>>, chcap |-> size]

\* A call on the ChannelQueue ends with result r.
ChEnds(r) ==
    /\ chret' = r
    /\ chcalls' = chcalls + 1

\* Push: select { case q.ch <- v: return true; default: return false }
ChPush(v) ==
    /\ IF Len(ch) < chcap
       THEN /\ ch' = Append(ch, v)
            /\ ChEnds(Result("push", v, TRUE, Zero, FALSE))
       ELSE /\ ch' = ch
            /\ ChEnds(Result("push", v, FALSE, Zero, FALSE))
    /\ UNCHANGED <<chcap, cn, tk, ring>>

\* Mutant of ChPop: the value sent last is received first.
ChPopLast ==
    /\ IF Len(ch) > 0
       THEN /\ ch' = SubSeq(ch, 1, Len(ch) - 1)
            /\ ChEnds(Result("pop", Zero, TRUE, ch[Len(ch)], FALSE))
       ELSE /\ ch' = ch
            /\ ChEnds(Result("pop", Zero, FALSE, Zero, FALSE))
    /\ UNCHANGED <<chcap, cn, tk, ring>>

\* Pop: select { case v := <-q.ch: return v, true; default: return zero, false }
ChPop ==
    /\ IF Len(ch) > 0
       THEN /\ ch' = Tail(ch)
            /\ ChEnds(Result("pop", Zero, TRUE, Head(ch), FALSE))
       ELSE /\ ch' = ch
            /\ ChEnds(Result("pop", Zero, FALSE, Zero, FALSE))
    /\ UNCHANGED <<chcap, cn, tk, ring>>

\* Len: return len(q.ch)
ChLen ==
    /\ ChEnds(Result("len", Zero, TRUE, Len(ch), FALSE))
    /\ UNCHANGED <<ch, chcap, cn, tk, ring>>

\* Cap: return cap(q.ch)
ChCap ==
    /\ ChEnds(Result("cap", Zero, TRUE, chcap, FALSE))
    /\ UNCHANGED <<ch, chcap, cn, tk, ring>>

\* The sizes NewRingBuffer does not round: the powers of two.
PowerOfTwoSizes == {size \in 1..MaxSize : RoundUp(1, ToUint(size)) = size}

\* A RingBuffer and a ChannelQueue made with the same size, one goroutine.
InitEquiv ==
    /\ observers = {}
    /\ \E size \in PowerOfTwoSizes :
          /\ InitBuffer(size)
          /\ ctor = Constructed(size)
          /\ ch = NewChannel(size).ch
          /\ chcap = NewChannel(size).chcap
    /\ InitLocals
    /\ NoCanceler
    /\ NoTicker
    /\ chret = NoResult
    /\ chcalls = 0
    /\ producers = {1}
    /\ consumers = {1}
    /\ maxcalls = MaxEquivCalls

\* The goroutine makes its next call on the RingBuffer, once the ChannelQueue
\* has had every call the RingBuffer has had.
RingCall ==
    /\ chcalls = ncalls
    /\ \/ \E v \in Values : PushGuard(1, v)
       \/ PopGuard(1)
       \/ LenLoadHead(1)
       \/ CapCall(1)

\* The call on the RingBuffer goes on.
RingStep ==
    \/ PushLoadHead(1)
    \/ PushLoadTail(1)
    \/ PushWrite(1)
    \/ PushStoreHead(1)
    \/ PushReturn(1)
    \/ PopLoadTail(1)
    \/ PopLoadHead(1)
    \/ PopRead(1)
    \/ PopStoreTail(1)
    \/ PopReturn(1)
    \/ LenLoadTail(1)

\* The call the RingBuffer has just returned from is made on the
\* ChannelQueue, with the same argument.
ChannelCall ==
    /\ pc[1] = "idle"
    /\ chcalls < ncalls
    /\ \/ ret[1].op = "push" /\ ChPush(ret[1].arg)
       \/ ret[1].op = "pop" /\ ChPop
       \/ ret[1].op = "len" /\ ChLen
       \/ ret[1].op = "cap" /\ ChCap

NextEquiv == RingCall \/ RingStep \/ ChannelCall

\* The same calls, one after the other, on both queues.
SpecEquiv == InitEquiv /\ [][NextEquiv]_vars

\* --------------------------------------------------------------- cancelers

\* Mutant of Done: the two cases of ContextCanceler's select are exchanged.
DoneSelectExchanged(o) == IF o = "atomic" THEN adone ELSE ~cclosed

\* AtomicCanceler.Done: return a.done.Load()
\* ContextCanceler.Done: select { case <-c.ctx.Done(): return true; default: return false }
Done(o) == IF o = "atomic" THEN adone ELSE cclosed

\* One goroutine alone calls the cancelers: its calls are sequential.
CSequential == Cardinality(cusers) = 1

\* A canceler call is logged.
CLogged(o, e) == clog' = IF CSequential THEN [clog EXCEPT ![o] = Append(@, e)] ELSE clog

\* A call of Done() on canceler o by goroutine t: one load, or one select.
DoneCall(t, o) ==
    /\ cpc[t] = CIdle
    /\ t \in cusers
    /\ cres' = [cres EXCEPT ![t] = [op |-> "done", val |-> Done(o), late |-> creturned[o]]]
    /\ CLogged(o, [op |-> "done", val |-> Done(o)])
    /\ ccalls' = ccalls + 1
    /\ UNCHANGED <<adone, cclosed, ckind, cusers, cpc, creturned, cancels, chq, tk, ring>>

\* Mutant of CancelStore: the flag is flipped, so a second Cancel() undoes
\* the first.
CancelStoreFlip(t, o) ==
    /\ cpc[t] = CIdle
    /\ t \in cusers
    /\ adone' = IF o = "atomic" THEN ~adone ELSE adone
    /\ cclosed' = IF o = "context" THEN ~cclosed ELSE cclosed
    /\ cpc' = [cpc EXCEPT ![t] = [at |-> "cancel_ret", obj |-> o]]
    /\ cancels' = [cancels EXCEPT ![o] = @ + 1]
    /\ CLogged(o, [op |-> "cancel", val |-> FALSE])
    /\ ccalls' = ccalls + 1
    /\ UNCHANGED <<ckind, cusers, cres, creturned, chq, tk, ring>>

\* AtomicCanceler.Cancel: a.done.Store(true)
\* ContextCanceler.Cancel: c.cancel(), which closes c.ctx.Done() if it is open
CancelStore(t, o) ==
    /\ cpc[t] = CIdle
    /\ t \in cusers
    /\ adone' = IF o = "atomic" THEN TRUE ELSE adone
    /\ cclosed' = IF o = "context" THEN TRUE ELSE cclosed
    /\ cpc' = [cpc EXCEPT ![t] = [at |-> "cancel_ret", obj |-> o]]
    /\ cancels' = [cancels EXCEPT ![o] = @ + 1]
    /\ CLogged(o, [op |-> "cancel", val |-> FALSE])
    /\ ccalls' = ccalls + 1
    /\ UNCHANGED <<ckind, cusers, cres, creturned, chq, tk, ring>>

\* Cancel() returns.
CancelReturn(t) ==
    /\ cpc[t].at = "cancel_ret"
    /\ creturned' = [creturned EXCEPT ![cpc[t].obj] = TRUE]
    /\ cpc' = [cpc EXCEPT ![t] = CIdle]
    /\ UNCHANGED <<adone, cclosed, ckind, cusers, cres, cancels, clog, ccalls, chq, tk, ring>>

\* Mutant of Reset: nothing is stored.
ResetNothing(t) ==
    /\ cpc[t] = CIdle
    /\ t \in cusers
    /\ adone' = adone
    /\ creturned' = [creturned EXCEPT !["atomic"] = FALSE]
    /\ cancels' = [cancels EXCEPT !["atomic"] = 0]
    /\ CLogged("atomic", [op |-> "reset", val |-> FALSE])
    /\ ccalls' = ccalls + 1
    /\ UNCHANGED <<cclosed, ckind, cusers, cpc, cres, chq, tk, ring>>

\* AtomicCanceler.Reset: a.done.Store(false)
Reset(t) ==
    /\ cpc[t] = CIdle
    /\ t \in cusers
    /\ adone' = FALSE
    /\ creturned' = [creturned EXCEPT !["atomic"] = FALSE]
    /\ cancels' = [cancels EXCEPT !["atomic"] = 0]
    /\ CLogged("atomic", [op |-> "reset", val |-> FALSE])
    /\ ccalls' = ccalls + 1
    /\ UNCHANGED <<cclosed, ckind, cusers, cpc, cres, chq, tk, ring>>

\* One writer and many readers on one canceler, of either kind.
InitCancel ==
    /\ NoRing
    /\ NoChannel
    /\ NoTicker
    /\ NewCancelers
    /\ ckind \in Cancelers
    /\ cusers = Threads

NextCancel ==
    \E t \in Threads :
        \/ ccalls < MaxCancelCalls /\ DoneCall(t, ckind)
        \/ ccalls < MaxCancelCalls /\ CancelStore(t, ckind)
        \/ CancelReturn(t)

\* Goroutines calling Done() and Cancel() on one canceler at any time.
SpecCancel == InitCancel /\ [][NextCancel]_vars

\* One goroutine: it calls an AtomicCanceler alone, Reset() included, or it
\* makes each Done() and Cancel() call on an AtomicCanceler and then on a
\* ContextCanceler.
InitCancelSeq ==
    /\ NoRing
    /\ NoChannel
    /\ NoTicker
    /\ NewCancelers
    /\ ckind \in {"atomic", "both"}
    /\ cusers = {1}

\* The goroutine's next call is made on the AtomicCanceler.
AtomicCall ==
    /\ ccalls < MaxCancelSeqCalls
    /\ Len(clog["context"]) = Len(clog["atomic"]) \/ ckind = "atomic"
    /\ \/ DoneCall(1, "atomic")
       \/ CancelStore(1, "atomic")
       \/ ckind = "atomic" /\ Reset(1)

\* The call just made on the AtomicCanceler is made on the ContextCanceler.
ContextCall ==
    /\ ckind = "both"
    /\ cpc[1] = CIdle
    /\ Len(clog["context"]) < Len(clog["atomic"])
    /\ LET e == clog["atomic"][Len(clog["context"]) + 1] IN
       \/ e.op = "done" /\ DoneCall(1, "context")
       \/ e.op = "cancel" /\ CancelStore(1, "context")

NextCancelSeq == AtomicCall \/ ContextCall \/ CancelReturn(1)

\* The calls of one goroutine, one after the other.
SpecCancelSeq == InitCancelSeq /\ [][NextCancelSeq]_vars

\* ----------------------------------------------------------------- tickers

\* The clocks move on: the next nanotime(), rdtsc() or time.Now() returns more.
Tock ==
    /\ clock < MaxClock
    /\ clock' = clock + 1
    /\ UNCHANGED <<tkind, interval, lastTick, every, count, pollers, tpc, tnow, tlast,
                   tcnt, tlog, tcalls, consulted, chq, cn, ring>>

\* One goroutine alone calls the ticker.
TSequential == Cardinality(pollers) = 1

\* What tlog holds of a call that ended.
Ticked(o, t, r) == [op |-> o, by |-> t, now |-> tnow[t], last |-> tlast[t], res |-> r]

\* now-last: of int64 readings in AtomicTicker, where it may be negative, and
\* of uint64 readings in TSCTicker, where it wraps around.
Elapsed(kind, now, last) == IF kind = "tsc" THEN Sub64(now, last) ELSE now - last

\* Tick: now := nanotime() (AtomicTicker), now := rdtsc() (TSCTicker)
TickNow(t) ==
    /\ tpc[t] = "idle"
    /\ tcalls < MaxTickCalls
    /\ tnow' = [tnow EXCEPT ![t] = clock]
    /\ tpc' = [tpc EXCEPT ![t] = "load"]
    /\ tcalls' = tcalls + 1
    /\ UNCHANGED <<tkind, clock, interval, lastTick, every, count, pollers, tlast,
                   tcnt, tlog, consulted, chq, cn, ring>>

\* Tick: last := lastTick.Load()
TickLoad(t) ==
    /\ tpc[t] = "load"
    /\ tlast' = [tlast EXCEPT ![t] = lastTick]
    /\ tpc' = [tpc EXCEPT ![t] = "cas"]
    /\ UNCHANGED <<tkind, clock, interval, lastTick, every, count, pollers, tnow,
                   tcnt, tlog, tcalls, consulted, chq, cn, ring>>

\* Mutant of TickCompare: a tick that leaves lastTick as it was.
TickCompareNoSwap(t) ==
    /\ tpc[t] = "cas"
    /\ tlog' = Append(tlog, Ticked("tick", t, Elapsed(tkind, tnow[t], tlast[t]) >= interval))
    /\ tpc' = [tpc EXCEPT ![t] = "idle"]
    /\ UNCHANGED <<tkind, clock, interval, lastTick, every, count, pollers, tnow,
                   tlast, tcnt, tcalls, consulted, chq, cn, ring>>

\* Tick: if now-last >= interval { if lastTick.CompareAndSwap(last, now)
\* { return true } }; return false
TickCompare(t) ==
    /\ tpc[t] = "cas"
    /\ IF Elapsed(tkind, tnow[t], tlast[t]) >= interval
       THEN LET c == CompareAndSwap(lastTick, tlast[t], tnow[t])
            IN  /\ lastTick' = c.val
                /\ tlog' = Append(tlog, Ticked("tick", t, c.swapped))
       ELSE /\ lastTick' = lastTick
            /\ tlog' = Append(tlog, Ticked("tick", t, FALSE))
    /\ tpc' = [tpc EXCEPT ![t] = "idle"]
    /\ UNCHANGED <<tkind, clock, interval, every, count, pollers, tnow, tlast, tcnt,
                   tcalls, consulted, chq, cn, ring>>

\* Reset: the argument nanotime() or rdtsc() of lastTick.Store. Called where
\* one goroutine polls the ticker.
ResetNow(t) ==
    /\ tpc[t] = "idle"
    /\ TSequential
    /\ tcalls < MaxTickCalls
    /\ tnow' = [tnow EXCEPT ![t] = clock]
    /\ tpc' = [tpc EXCEPT ![t] = "store"]
    /\ tcalls' = tcalls + 1
    /\ UNCHANGED <<tkind, clock, interval, lastTick, every, count, pollers, tlast,
                   tcnt, tlog, consulted, chq, cn, ring>>

\* Reset: lastTick.Store(...)
ResetStore(t) ==
    /\ tpc[t] = "store"
    /\ lastTick' = tnow[t]
    /\ tlog' = Append(tlog, Ticked("reset", t, FALSE))
    /\ tpc' = [tpc EXCEPT ![t] = "idle"]
    /\ UNCHANGED <<tkind, clock, interval, every, count, pollers, tnow, tlast, tcnt,
                   tcalls, consulted, chq, cn, ring>>

\* NewAtomicTicker(interval) or NewTSC(interval, 1.0): lastTick holds the
\* reading of the clock at construction. One goroutine polls it, or two do.
InitTick ==
    /\ NoRing
    /\ NoChannel
    /\ NoCanceler
    /\ tkind \in {"atomic", "tsc"}
    /\ clock = 0
    /\ interval \in (IF tkind = "atomic" THEN -MaxNegInterval ELSE 0)..MaxInterval
    /\ lastTick = clock
    /\ every = 0
    /\ count = 0
    /\ pollers \in {{1}, {1, 2}}
    /\ TIdle

NextTick ==
    \/ Tock
    \/ \E t \in pollers :
          \/ TickNow(t)
          \/ TickLoad(t)
          \/ TickCompare(t)
          \/ ResetNow(t)
          \/ ResetStore(t)

SpecTick == InitTick /\ [][NextTick]_vars

\* ------------------------------------------------------------- BatchTicker

\* Calls a run on a BatchTicker may start.
BatchCalls == IF TSequential THEN MaxBatchSeqCalls ELSE MaxBatchCalls

\* Tick: b.count++, the read of b.count. The field is a plain int, so the
\* increment of one goroutine is a read and a write that the calls of other
\* goroutines may come between.
BatchLoad(t) ==
    /\ tpc[t] = "idle"
    /\ tcalls < BatchCalls
    /\ tcnt' = [tcnt EXCEPT ![t] = count]
    /\ tpc' = [tpc EXCEPT ![t] = "inc"]
    /\ tcalls' = tcalls + 1
    /\ UNCHANGED <<tkind, clock, interval, lastTick, every, count, pollers, tnow,
                   tlast, tlog, consulted, chq, cn, ring>>

\* Tick: b.count++, the write of b.count.
BatchStore(t) ==
    /\ tpc[t] = "inc"
    /\ count' = tcnt[t] + 1
    /\ tcnt' = [tcnt EXCEPT ![t] = tcnt[t] + 1]
    /\ tpc' = [tpc EXCEPT ![t] = "mod"]
    /\ UNCHANGED <<tkind, clock, interval, lastTick, every, pollers, tnow, tlast,
                   tlog, tcalls, consulted, chq, cn, ring>>

\* Tick: if b.count%b.every != 0 { return false }. The count is the value
\* the goroutine has just written, or b.count read again.
BatchMod(t) ==
    /\ tpc[t] = "mod"
    /\ \E c \in {tcnt[t], count} :
          IF c % every # 0
          THEN /\ tlog' = Append(tlog, Ticked("tick", t, FALSE))
               /\ tpc' = [tpc EXCEPT ![t] = "idle"]
          ELSE /\ tlog' = tlog
               /\ tpc' = [tpc EXCEPT ![t] = "now"]
    /\ UNCHANGED <<tkind, clock, interval, lastTick, every, count, pollers, tnow,
                   tlast, tcnt, tcalls, consulted, chq, cn, ring>>

\* Tick: now := time.Now()
BatchNow(t) ==
    /\ tpc[t] = "now"
    /\ tnow' = [tnow EXCEPT ![t] = clock]
    /\ consulted' = consulted + 1
    /\ tpc' = [tpc EXCEPT ![t] = "sub"]
    /\ UNCHANGED <<tkind, clock, interval, lastTick, every, count, pollers, tlast,
                   tcnt, tlog, tcalls, chq, cn, ring>>

\* Tick: the read of b.lastTick in now.Sub(b.lastTick)
BatchSub(t) ==
    /\ tpc[t] = "sub"
    /\ tlast' = [tlast EXCEPT ![t] = lastTick]
    /\ tpc' = [tpc EXCEPT ![t] = "cmp"]
    /\ UNCHANGED <<tkind, clock, interval, lastTick, every, count, pollers, tnow,
                   tcnt, tlog, tcalls, consulted, chq, cn, ring>>

\* Mutant of BatchCompare: the comparison is > in place of >=.
BatchCompareStrict(t) ==
    /\ tpc[t] = "cmp"
    /\ IF tnow[t] - tlast[t] > interval
       THEN /\ lastTick' = tnow[t]
            /\ tlog' = Append(tlog, Ticked("tick", t, TRUE))
       ELSE /\ lastTick' = lastTick
            /\ tlog' = Append(tlog, Ticked("tick", t, FALSE))
    /\ tpc' = [tpc EXCEPT ![t] = "idle"]
    /\ UNCHANGED <<tkind, clock, interval, every, count, pollers, tnow, tlast, tcnt,
                   tcalls, consulted, chq, cn, ring>>

\* Tick: if now.Sub(b.lastTick) >= b.interval { b.lastTick = now; return true };
\* return false
BatchCompare(t) ==
    /\ tpc[t] = "cmp"
    /\ IF tnow[t] - tlast[t] >= interval
       THEN /\ lastTick' = tnow[t]
            /\ tlog' = Append(tlog, Ticked("tick", t, TRUE))
       ELSE /\ lastTick' = lastTick
            /\ tlog' = Append(tlog, Ticked("tick", t, FALSE))
    /\ tpc' = [tpc EXCEPT ![t] = "idle"]
    /\ UNCHANGED <<tkind, clock, interval, every, count, pollers, tnow, tlast, tcnt,
                   tcalls, consulted, chq, cn, ring>>

\* Reset: b.count = 0. Called where one goroutine polls the ticker.
BatchResetCount(t) ==
    /\ tpc[t] = "idle"
    /\ TSequential
    /\ tcalls < BatchCalls
    /\ count' = 0
    /\ tpc' = [tpc EXCEPT ![t] = "renew"]
    /\ tcalls' = tcalls + 1
    /\ UNCHANGED <<tkind, clock, interval, lastTick, every, pollers, tnow, tlast, tcnt,
                   tlog, consulted, chq, cn, ring>>

\* Reset: b.lastTick = time.Now()
BatchResetNow(t) ==
    /\ tpc[t] = "renew"
    /\ tnow' = [tnow EXCEPT ![t] = clock]
    /\ lastTick' = clock
    /\ tlog' = Append(tlog, [op |-> "reset", by |-> t, now |-> clock,
                             last |-> tlast[t], res |-> FALSE])
    /\ tpc' = [tpc EXCEPT ![t] = "idle"]
    /\ UNCHANGED <<tkind, clock, interval, every, count, pollers, tlast, tcnt, tcalls,
                   consulted, chq, cn, ring>>

\* What tlog holds of NewBatch(interval, n).
Made(n) == [op |-> "new", every |-> n, now |-> clock, res |-> FALSE]

\* NewBatch: if every < 1 { every = 1 }
NewBatch(n) == IF n < 1 THEN 1 ELSE n

\* NewBatch(interval, every): an every below 1 becomes 1, count is 0 and
\* lastTick is time.Now(). One goroutine polls it, or two do.
InitBatch ==
    /\ NoRing
    /\ NoChannel
    /\ NoCanceler
    /\ tkind = "batch"
    /\ clock = 0
    /\ interval \in 0..MaxInterval
    /\ lastTick = clock
    /\ \E n \in -MaxNegEvery..MaxEvery :
          /\ every = NewBatch(n)
          /\ tlog = <<Made(n)>>
    /\ count = 0
    /\ pollers \in {{1}, {1, 2}}
    /\ tpc = [t \in Threads |-> "idle"]
    /\ tnow = [t \in Threads |-> 0]
    /\ tlast = [t \in Threads |-> 0]
    /\ tcnt = [t \in Threads |-> 0]
    /\ tcalls = 0
    /\ consulted = 0

NextBatch ==
    \/ Tock
    \/ \E t \in pollers :
          \/ BatchLoad(t)
          \/ BatchStore(t)
          \/ BatchMod(t)
          \/ BatchNow(t)
          \/ BatchSub(t)
          \/ BatchCompare(t)
          \/ BatchResetCount(t)
          \/ BatchResetNow(t)

SpecBatch == InitBatch /\ [][NextBatch]_vars

\* ------------------------------------------------------------------ claims

\* C1: with one producer and one consumer interleaved at every atomic access,
\* the values returned by successful Pops are at every moment a prefix of the
\* values published by successful Pushes: nothing lost, duplicated, reordered.
C1_FifoPrefix ==
    /\ Len(popped) <= Len(pushed)
    /\ \A i \in 1..Len(popped) : popped[i] = pushed[i]

\* Producer and consumer run concurrently, the ring index has wrapped, and
\* three values, not all equal, came out.
C1_Witness ==
    /\ consumers = {2}
    /\ BufLen = 2
    /\ Len(popped) = 3
    /\ popped[1] # popped[2]
    /\ head > BufLen

C3_Occupied == head - tail \in 0..BufLen

\* Push has just advanced head to fill the buffer as it saw it, after having
\* compared against a tail that the consumer has moved since.
C3_Witness ==
    /\ pc[1] = "push_ret_true"
    /\ ltail[1] < tail
    /\ head - ltail[1] = BufLen
    /\ BufLen = 2

\* C4: for any number of goroutines calling Push and Pop, at most one is
\* between the successful guard CAS and the guard release of Push, and at
\* most one between those of Pop.
C4_OneInside ==
    /\ Cardinality(InPush) <= 1
    /\ Cardinality(InPop) <= 1

\* One goroutine is inside Push, another inside Pop, and a third has been
\* turned away by a guard.
C4_Witness ==
    \E t1, t2, t3 \in Threads :
        /\ t1 # t2 /\ t2 # t3 /\ t1 # t3
        /\ pc[t1] \in PushBody
        /\ pc[t2] \in PopBody
        /\ ret[t3].panic

\* C5: a Push that reaches its guard while another goroutine is inside Push
\* panics in that very step: it has read neither head nor tail and leaves
\* head, tail and every slot as they are; the same for Pop and its guard.
C5_GuardPanics ==
    [][\A t \in Threads :
          /\ (InPush \ {t} # {} /\ \E v \in Values : PushGuard(t, v))
                => /\ ret'[t].op = "push" /\ ret'[t].panic
                   /\ pc'[t] = "idle"
                   /\ UNCHANGED <<head, tail, buf, lhead, ltail>>
          /\ (InPop \ {t} # {} /\ PopGuard(t))
                => /\ ret'[t].op = "pop" /\ ret'[t].panic
                   /\ pc'[t] = "idle"
                   /\ UNCHANGED <<head, tail, buf, lhead, ltail>>]_vars

\* A Pop has panicked at the guard while another goroutine is inside Pop on
\* a buffer that holds a value.
C5_Witness ==
    \E t, u \in Threads :
        /\ t # u
        /\ ret[t].op = "pop" /\ ret[t].panic
        /\ pc[u] \in PopBody
        /\ head > tail

\* C6: with one producer and one consumer (the same goroutine or two), no
\* Push and no Pop ever panics, under every interleaving.
C6_NoPanic == \A t \in Threads : ~ret[t].panic

\* A Push and a Pop are in progress at once, each goroutine having finished
\* a call before.
C6_Witness ==
    /\ pc[1] \in PushBody
    /\ pc[2] \in PopBody
    /\ ret[1].op = "push"
    /\ ret[2].op = "pop"
    /\ pushActive = 1 /\ popActive = 1

\* The ops of the first k logged calls include no Pop.
NoPopUpTo(k) == \A j \in 1..k : log[j].op # "pop"

\* How many of the first k logged calls are Push calls.
PushesUpTo(k) == Cardinality({j \in 1..k : log[j].op = "push"})

\* How many of the first k logged calls are calls of op that succeeded.
OkCount(op, k) == Cardinality({j \in 1..k : log[j].op = op /\ log[j].ok})

\* C7: from an empty buffer of capacity N = Cap(), the first N Push calls
\* return true and every further Push returns false as long as no Pop is
\* called; after a successful Pop the next Push returns true.
C7_CapacityBound ==
    /\ \A k \in 1..Len(log) :
          (log[k].op = "push" /\ NoPopUpTo(k))
              => (log[k].ok <=> PushesUpTo(k) <= BufLen)
    /\ \A k, m \in 1..Len(log) :
          (/\ k < m
           /\ log[k].op = "pop" /\ log[k].ok
           /\ log[m].op = "push"
           /\ \A j \in (k + 1)..(m - 1) : log[j].op = "len")
              => log[m].ok

\* Capacity 2: two Pushes succeeded, two more failed, a Pop succeeded and the
\* Push after it succeeded.
C7_Witness ==
    /\ BufLen = 2
    /\ Len(log) = 6
    /\ \A k \in {1, 2, 3, 4, 6} : log[k].op = "push"
    /\ log[5].op = "pop"
    /\ log[1].ok /\ log[2].ok /\ ~log[3].ok /\ ~log[4].ok /\ log[5].ok /\ log[6].ok

\* C8: a Push that finds the buffer full (head - tail >= N) returns false;
\* no step of it changes head, tail or a slot, so the rejected value is stored
\* nowhere, and the push flag is 0 once it has returned.
C8_FullPushFrame ==
    [][\A t \in Threads :
          /\ (PushLoadTail(t) /\ head - tail >= BufLen)
                => /\ pc'[t] = "push_ret_false"
                   /\ UNCHANGED <<head, tail, buf, pushed>>
          /\ (PushReturn(t) /\ pc[t] = "push_ret_false")
                => /\ ret'[t] = Result("push", arg[t], FALSE, Zero, FALSE)
                   /\ pushActive' = 0
                   /\ head' = lhead[t]
                   /\ UNCHANGED <<head, tail, buf, pushed>>]_vars

\* Value 2 was rejected by a full buffer of capacity 2 that holds 1 in both
\* slots: the call is over, the flag is 0 and 2 is in no slot.
C8_Witness ==
    /\ BufLen = 2
    /\ head - tail = BufLen
    /\ pc[1] = "idle"
    /\ ret[1] = Result("push", 2, FALSE, Zero, FALSE)
    /\ \A i \in DOMAIN buf : buf[i] = 1
    /\ pushActive = 0

\* C9: a Pop on a buffer that holds nothing (new, or drained) returns the zero
\* value with ok = false; no step of it changes head, tail or a slot, and the
\* pop flag is 0 once it has returned. Pop returns ok = true only when a
\* published value was still waiting: never a stale slot.
C9_EmptyPop ==
    [][\A t \in Threads :
          /\ (PopLoadHead(t) /\ Len(pushed) = Len(popped))
                => /\ pc'[t] = "pop_ret_false"
                   /\ UNCHANGED <<head, tail, buf, popped>>
          /\ (PopReturn(t) /\ pc[t] = "pop_ret_false")
                => /\ ret'[t] = Result("pop", Zero, FALSE, Zero, FALSE)
                   /\ popActive' = 0
                   /\ UNCHANGED <<head, tail, buf, popped>>
          /\ (PopReturn(t) /\ ret'[t].ok)
                => Len(popped) < Len(pushed)]_vars

\* A Pop on a drained buffer returned (zero, false) although the slot under
\* tail still holds the value popped before.
C9_Witness ==
    \E t \in Threads :
        /\ pc[t] = "idle"
        /\ ret[t] = Result("pop", Zero, FALSE, Zero, FALSE)
        /\ Len(popped) >= 1
        /\ Len(popped) = Len(pushed)
        /\ buf[Slot(tail, mask)] # Zero
        /\ popActive = 0

IsPow2(n) == \E k \in 0..CursorBits : n = 2^k

\* n is the smallest power of two that is >= c.
SmallestPow2AtLeast(n, c) ==
    /\ IsPow2(n)
    /\ n >= c
    /\ \A m \in 1..(n - 1) : IsPow2(m) => m < c

\* C11: for a positive size c, the buffer NewRingBuffer(c) returns has as
\* many slots as the smallest power of two >= c, starts with head = tail = 0,
\* both flags 0 and every slot zero, and Cap() returns that power of two.
C11_PowerOfTwo ==
    (ctor.pc = "done" /\ ctor.size > 0)
        => /\ SmallestPow2AtLeast(BufLen, ctor.size)
           /\ ncalls = 0
                 => /\ head = 0 /\ tail = 0
                    /\ pushActive = 0 /\ popActive = 0
                    /\ \A i \in DOMAIN buf : buf[i] = Zero
           /\ \A t \in Threads :
                 ret[t].op = "cap"
                     => SmallestPow2AtLeast(ret[t].val, ctor.size)

\* NewRingBuffer(5) has returned and Cap() returned 8.
C11_Witness ==
    /\ ctor.pc = "done"
    /\ ctor.size = 5
    /\ ret[1].op = "cap"
    /\ ret[1].val = 8

\* C12: while no Push is in progress the push flag is 0 and while no Pop is
\* in progress the pop flag is 0: every return clears the flag, the early
\* returns too, so the next call of the legitimate goroutine gets in.
C12_FlagsClear ==
    /\ InPush = {} => pushActive = 0
    /\ InPop = {} => popActive = 0

\* After a Push that found the buffer full and a Pop that found it empty,
\* nothing is in progress (so both flags are 0).
C12_Witness ==
    /\ InPush = {} /\ InPop = {}
    /\ ret[1] = Result("push", 1, FALSE, Zero, FALSE)
    /\ ret[2] = Result("pop", Zero, FALSE, Zero, FALSE)
    /\ head = tail
    /\ head >= 1

\* A step that ends a Push of t: a return or the guard's panic.
PushExit(t) == PushReturn(t) \/ (\E v \in Values : PushGuard(t, v) /\ pc'[t] = "idle")

\* A step that ends a Pop of t: a return or the guard's panic.
PopExit(t) == PopReturn(t) \/ (PopGuard(t) /\ pc'[t] = "idle")

\* C13 as stated: every exit path of Push and of Pop stores 0 into the
\* role's flag, the contract-violation path included.
C13_EveryExitReleases ==
    [][\A t \in Threads :
          /\ PushExit(t) => pushActive' = 0
          /\ PopExit(t) => popActive' = 0]_vars

\* C13 amended: every return of Push and of Pop, normal or early, stores 0
\* into the role's flag; the contract-violation path stores nothing, so the
\* flag stays 1 for the call in progress.
C13_ReturnsRelease ==
    [][\A t \in Threads :
          /\ PushReturn(t) => pushActive' = 0
          /\ PopReturn(t) => popActive' = 0
          /\ (PushExit(t) /\ ~PushReturn(t)) => (pushActive = 1 /\ pushActive' = 1)
          /\ (PopExit(t) /\ ~PopReturn(t)) => (popActive = 1 /\ popActive' = 1)]_vars

\* A Push was turned away by the guard and the flag is still 1 for the Push
\* in progress, which is on its early return.
C13_Witness ==
    \E t, u \in Threads :
        /\ t # u
        /\ ret[t].op = "push" /\ ret[t].panic
        /\ pc[u] = "push_ret_false"
        /\ pushActive = 1

\* Every goroutine has ended a Push.
AllPushed == \A t \in Threads : ret[t].op = "push"

\* C14 as stated: when all goroutines call Push concurrently on one buffer,
\* at least one Push is rejected by the guard.
C14_SomeRejected == AllPushed => \E t \in Threads : ret[t].panic

\* C14 amended: a Push is rejected by the guard exactly when it reaches the
\* guard while another Push is inside; when no two Push calls overlap, none
\* is rejected.
C14_RejectedIffOverlap ==
    [][\A t \in Threads : \A v \in Values :
          PushGuard(t, v) => (ret'[t].panic /\ pc'[t] = "idle" <=> InPush \ {t} # {})]_vars

\* Every goroutine has ended a Push, one of them rejected.
C14_Witness ==
    /\ AllPushed
    /\ Cardinality({t \in Threads : ret[t].panic}) = 1

\* Both loops of the test have ended.
LoopsEnded ==
    /\ pc[1] = "idle" /\ ProducerI = Count
    /\ pc[2] = "idle" /\ Received = Count

\* C15: one producer pushes 0..count-1 retrying each Push until it returns
\* true, one consumer retries Pop until it has count values; when both are
\* scheduled fairly both loops end, and the consumer has then received
\* exactly 0, 1, ..., count-1 in that order; count is larger than the
\* capacity.
C15_ScenarioEnds ==
    <>[](LoopsEnded /\ popped = [i \in 1..Count |-> i - 1] /\ Count > BufLen)

\* Both loops have ended on a buffer of two slots, fewer than count, and the
\* consumer holds 0, 1, ..., count-1.
C15_Witness ==
    /\ LoopsEnded
    /\ BufLen = 2
    /\ popped = [i \in 1..Count |-> i - 1]
    /\ ret[1].op = "push" /\ ret[1].ok

\* A step of goroutine t inside Push, from the guard to the return.
PushStep(t) ==
    \/ \E v \in Values : PushGuard(t, v)
    \/ PushLoadHead(t)
    \/ PushLoadTail(t)
    \/ PushWrite(t)
    \/ PushStoreHead(t)
    \/ PushReturn(t)

\* A step of goroutine t inside Pop, from the guard to the return.
PopStep(t) ==
    \/ PopGuard(t)
    \/ PopLoadTail(t)
    \/ PopLoadHead(t)
    \/ PopRead(t)
    \/ PopStoreTail(t)
    \/ PopReturn(t)

\* The slots that differ between the two states of a step.
SlotsWritten == {i \in DOMAIN buf : buf'[i] # buf[i]}

\* C16: no step of Push writes tail or the pop flag, and a step of Push
\* writes no slot but head & mask; no step of Pop writes head, the push flag
\* or a slot. Head, the slots and the push flag change only in steps of the
\* producer's Push, tail and the pop flag only in steps of the consumer's Pop;
\* the slice and the mask stay as NewRingBuffer made them.
C16_OwnFieldsOnly ==
    [][/\ \A t \in Threads :
             /\ PushStep(t) => /\ tail' = tail
                               /\ popActive' = popActive
                               /\ SlotsWritten \subseteq {Slot(head, mask)}
             /\ PopStep(t) => /\ head' = head
                              /\ pushActive' = pushActive
                              /\ SlotsWritten = {}
       /\ (head' # head \/ SlotsWritten # {} \/ pushActive' # pushActive)
             => \E t \in producers : PushStep(t)
       /\ (tail' # tail \/ popActive' # popActive)
             => \E t \in consumers : PopStep(t)
       /\ ctor.pc = "done" => DOMAIN buf' = DOMAIN buf /\ mask' = mask]_vars

\* The producer has published one value and written the slot of the next,
\* the consumer is inside Pop about to read: a Push and a Pop are both in
\* progress.
C16_Witness ==
    /\ head = 1 /\ tail = 0
    /\ pc[1] = "push_store_head"
    /\ pc[2] = "pop_read"
    /\ buf[Slot(head, mask)] # Zero

C18_NoSharedSlot ==
    \A p \in Threads :
        pc[p] = "push_write"
            => /\ \A i \in tail..(head - 1) : Slot(i, mask) # Slot(lhead[p], mask)
               /\ \A c \in Threads :
                     pc[c] = "pop_read" => Slot(ltail[c], mask) # Slot(lhead[p], mask)

\* After the cursors have wrapped around a buffer of two slots, the producer
\* is about to write one slot while the consumer is about to read the other.
C18_Witness ==
    /\ BufLen = 2
    /\ pc[1] = "push_write" /\ pc[2] = "pop_read"
    /\ lhead[1] = 2 /\ ltail[2] = 1

\* C19: the slot is written before head is advanced, so in every state each
\* logical position i in [tail, head) holds in slot i & mask the i-th value
\* that was pushed, and what a Pop has read at position tail is that value.
C19_PublishedSlots ==
    /\ \A i \in tail..(head - 1) : buf[Slot(i, mask)] = pushed[i + 1]
    /\ \A c \in Threads :
          pc[c] = "pop_store_tail" => lv[c] = pushed[ltail[c] + 1]

\* A buffer of two slots is full after its cursors wrapped, with two
\* different values in it, and the consumer has just read the older one.
C19_Witness ==
    /\ BufLen = 2
    /\ head = 3 /\ tail = 1
    /\ buf[Slot(1, mask)] # buf[Slot(2, mask)]
    /\ pc[2] = "pop_store_tail"

\* The largest number of steps a call at place p still has to take before it
\* is back at its caller.
StepsLeft(p) ==
    CASE p = "idle" -> 0
      [] p \in {"push_ret_true", "push_ret_false", "pop_ret_true", "pop_ret_false"} -> 1
      [] p \in {"push_store_head", "pop_store_tail"} -> 2
      [] p \in {"push_write", "pop_read"} -> 3
      [] p \in {"push_load_tail", "pop_load_head"} -> 4
      [] p \in {"push_load_head", "pop_load_tail"} -> 5
      [] OTHER -> 0

\* A step of goroutine t inside the body of Push or Pop.
BodyStep(t) ==
    \/ PushLoadHead(t)
    \/ PushLoadTail(t)
    \/ PushWrite(t)
    \/ PushStoreHead(t)
    \/ PushReturn(t)
    \/ PopLoadTail(t)
    \/ PopLoadHead(t)
    \/ PopRead(t)
    \/ PopStoreTail(t)
    \/ PopReturn(t)

\* C20: a call of Push or Pop that passed its guard can take its next step in
\* every state, wherever the other goroutine is, and each of its steps
\* brings it nearer to its return: it is back at its caller after at most
\* five steps of its own (the guard's step, which enters or panics, makes
\* six), without a loop and without waiting for the other role.
C20_BoundedSteps ==
    \A t \in Threads :
        pc[t] \in PushBody \cup PopBody
            => /\ ENABLED (BodyStep(t) /\ StepsLeft(pc'[t]) < StepsLeft(pc[t]))
               /\ ~ENABLED (BodyStep(t) /\ StepsLeft(pc'[t]) >= StepsLeft(pc[t]))

\* The consumer has stalled at the start of its first Pop, and the producer's
\* Push on the full buffer has returned false all the same.
C20_Witness ==
    /\ pc[2] = "pop_load_tail"
    /\ ret[2] = NoResult
    /\ pc[1] = "idle"
    /\ ret[1].op = "push" /\ ~ret[1].ok /\ ~ret[1].panic
    /\ head - tail = BufLen

\* C21: a Len() call during which no Push publishes a value, and which ends
\* while no Push and no Pop is in progress, returns the number of Push
\* calls that returned true minus the number of Pop calls that returned
\* ok = true; no step of Len() changes the buffer.
C21_LenCounts ==
    [][\A t \in Threads :
          /\ (LenLoadHead(t) \/ LenLoadTail(t))
                => /\ UNCHANGED <<rb, pushed, popped>>
                   /\ \A u \in Threads \ {t} : pc'[u] = pc[u] /\ ret'[u] = ret[u]
          /\ (LenLoadTail(t) /\ InPush = {} /\ InPop = {} /\ head = lhead[t])
                => ret'[t] = Result("len", Zero, TRUE, Len(pushed) - Len(popped), FALSE)]_vars

\* Two Pushes have returned true, no Pop has returned a value, and Len() has
\* just returned 2.
C21_Witness ==
    /\ \A t \in Threads : pc[t] = "idle"
    /\ Len(pushed) = 2 /\ Len(popped) = 0
    /\ ret[1] = Result("len", Zero, TRUE, 2, FALSE)

\* C22: once NewRingBuffer has returned, the slice has the length N it was
\* made with and the mask is N - 1 whatever Push, Pop, Len and Cap calls have
\* run; N is a power of two, every Cap() returns N, and head & mask equals
\* head mod N for every value a cursor can have (a property of N alone,
\* computed for the buffer as it leaves NewRingBuffer).
C22_CapConstant ==
    ctor.pc = "done"
        => /\ BufLen = ctor.n
           /\ DOMAIN buf = 0..(ctor.n - 1)
           /\ mask = ctor.n - 1
           /\ IsPow2(BufLen)
           /\ \A t \in Threads : ret[t].op = "cap" => ret[t].val = ctor.n
           /\ ncalls = 0
                 => \A cursor \in 0..(Modulus - 1) :
                        Slot(cursor, mask) = cursor % BufLen

\* NewRingBuffer(3) made four slots; after a Push, a Pop and a Len() call,
\* Cap() has returned 4.
C22_Witness ==
    /\ ctor.pc = "done" /\ ctor.size = 3
    /\ Len(pushed) = 1 /\ Len(popped) = 1
    /\ \E t \in Threads : ret[t] = Result("cap", Zero, TRUE, 4, FALSE)
    /\ ncalls = 4

C24_DoneAfterCancel ==
    /\ cancels[ckind] = 0 => ~Done(ckind) /\ \A t \in Threads : ~cres[t].val
    /\ \A t \in Threads : (cres[t].op = "done" /\ cres[t].late) => cres[t].val
    /\ creturned[ckind] => Done(ckind)

\* On a ContextCanceler a Done() returned false, two Cancel() calls have
\* returned, and a Done() of another goroutine that began after a Cancel()
\* had returned has returned true.
C24_Witness ==
    /\ ckind = "context"
    /\ cancels["context"] = 2
    /\ \A t \in Threads : cpc[t] = CIdle
    /\ \E t, u \in Threads :
          /\ cres[t] = [op |-> "done", val |-> FALSE, late |-> FALSE]
          /\ cres[u] = [op |-> "done", val |-> TRUE, late |-> TRUE]

\* The calls before the i-th call on the AtomicCanceler that store the flag.
StoresBefore(i) == {j \in 1..(i - 1) : clog["atomic"][j].op # "done"}

\* The last of the calls before the i-th that store the flag is a Cancel().
CancelledAt(i) ==
    /\ StoresBefore(i) # {}
    /\ LET j == CHOOSE k \in StoresBefore(i) : \A m \in StoresBefore(i) : m <= k
       IN clog["atomic"][j].op = "cancel"

\* C25: in the calls of one goroutine on an AtomicCanceler, a Done() returns
\* true exactly when a Cancel() came before it with no Reset() in between:
\* after Reset() Done() is false until the next Cancel(), and after Cancel()
\* then Reset() the canceler is in the state NewAtomic() returns.
C25_ResetReuses ==
    ckind = "atomic"
        => /\ \A i \in 1..Len(clog["atomic"]) :
                 clog["atomic"][i].op = "done"
                     => clog["atomic"][i].val = CancelledAt(i)
           /\ adone = CancelledAt(Len(clog["atomic"]) + 1)

\* Cancel, Done() = true, Reset, Done() = false, Cancel, Done() = true.
C25_Witness ==
    /\ ckind = "atomic"
    /\ clog["atomic"] = << [op |-> "cancel", val |-> FALSE], [op |-> "done", val |-> TRUE],
                           [op |-> "reset", val |-> FALSE], [op |-> "done", val |-> FALSE],
                           [op |-> "cancel", val |-> FALSE], [op |-> "done", val |-> TRUE] >>

\* C26: when one goroutine makes the same Done() and Cancel() calls, in any
\* order, on an AtomicCanceler and on a ContextCanceler built on a parent
\* that is never cancelled, every Done() returns the same on both.
C26_SameDone ==
    (ckind = "both" /\ Len(clog["context"]) = Len(clog["atomic"]))
        => clog["context"] = clog["atomic"]

\* Done() = false, Cancel, Done() = true on both cancelers.
C26_Witness ==
    /\ ckind = "both"
    /\ clog["atomic"] = << [op |-> "done", val |-> FALSE], [op |-> "cancel", val |-> FALSE],
                           [op |-> "done", val |-> TRUE] >>
    /\ clog["context"] = clog["atomic"]


\* The reading of the clock from which the interval runs once the first i
\* calls of tlog have ended: that of the last Reset or true Tick among them,
\* or else that of the construction.
RECURSIVE Since(_)
Since(i) ==
    IF i = 0 THEN Zero
    ELSE IF tlog[i].op = "reset" \/ tlog[i].res THEN tlog[i].now
    ELSE Since(i - 1)

\* C27: an AtomicTicker with a positive interval, polled by one goroutine:
\* Tick() returns true exactly when its reading of the clock is at least
\* interval after the reading of the construction, of the last Reset() or of
\* the last true Tick(), whichever is latest; so it is false while less has
\* elapsed, true on the first call made once interval has elapsed, and false
\* on a call made at the same reading as the true Tick() or the Reset()
\* before it.
C27_TickAfterInterval ==
    (tkind = "atomic" /\ TSequential /\ interval > 0) =>
        \A i \in 1..Len(tlog) :
            tlog[i].op = "tick" =>
                /\ tlog[i].res = (tlog[i].now - Since(i - 1) >= interval)
                /\ ( /\ i > 1
                     /\ tlog[i - 1].op = "reset" \/ tlog[i - 1].res
                     /\ tlog[i].now = tlog[i - 1].now ) => ~tlog[i].res

\* One goroutine has had a true Tick() once the interval had elapsed, a false
\* Tick() at the same reading, a Reset() and a false Tick() after it.
C27_Witness ==
    /\ tkind = "atomic" /\ TSequential /\ interval > 0
    /\ Len(tlog) = 4
    /\ tlog[1].op = "tick" /\ tlog[1].res /\ tlog[1].now >= interval
    /\ tlog[2].op = "tick" /\ ~tlog[2].res /\ tlog[2].now = tlog[1].now
    /\ tlog[3].op = "reset"
    /\ tlog[4].op = "tick" /\ ~tlog[4].res

\* Calls i and j of tlog are Tick() calls of two goroutines that loaded the
\* same lastTick value.
SameLoad(i, j) ==
    /\ tlog[i].op = "tick"
    /\ tlog[i].by # tlog[j].by
    /\ tlog[j].op = "tick"
    /\ tlog[i].last = tlog[j].last

\* C28: goroutines calling AtomicTicker.Tick() concurrently: among the Tick()
\* calls that loaded the same lastTick value at most one returns true.
C28_OneTickPerLoad ==
    (tkind = "atomic" /\ ~TSequential) =>
        \A i \in 1..Len(tlog) : \A j \in 1..Len(tlog) :
            (i < j /\ SameLoad(i, j)) => ~(tlog[i].res /\ tlog[j].res)

\* C29: goroutines calling TSCTicker.Tick() concurrently while rdtsc() never
\* goes back: no step lowers lastTick, and a Tick() that returns true has a
\* reading at least intervalCycles above the lastTick value it replaced.
C29_TSCSafe ==
    [][ (tkind = "tsc" /\ ~TSequential) =>
            /\ lastTick' >= lastTick
            /\ (Len(tlog') > Len(tlog) /\ tlog'[Len(tlog')].res) =>
                   tlog'[Len(tlog')].now >= tlog'[Len(tlog')].last + interval ]_vars

\* C30: goroutines calling BatchTicker.Tick() concurrently: once the calls
\* made have all returned, count is the number of calls, and time.Now() has
\* been called once for every every-th of them.
C30_BatchCounts ==
    (tkind = "batch" /\ ~TSequential /\ \A t \in pollers : tpc[t] = "idle") =>
        /\ count = tcalls
        /\ consulted = tcalls \div every

\* The ordinal of call i of tlog among the Tick() calls made since the
\* construction or the last Reset() before it; 0 if it is no Tick() call.
RECURSIVE Ordinal(_)
Ordinal(i) ==
    IF i = 0 THEN 0
    ELSE IF tlog[i].op # "tick" THEN 0
    ELSE 1 + Ordinal(i - 1)

\* every as NewBatch was given it, taken as 1 when below 1.
GivenEvery == IF tlog[1].every < 1 THEN 1 ELSE tlog[1].every

\* C31: a BatchTicker polled by one goroutine: a Tick() whose ordinal since
\* the construction or the last Reset() is no multiple of every returns false
\* whatever the clock reads; one whose ordinal is a multiple of every returns
\* true exactly when its reading of the clock is at least interval after that
\* of the last true Tick(), the last Reset() or the construction; an every
\* below 1 counts as 1.
C31_BatchEvery ==
    (tkind = "batch" /\ TSequential) =>
        \A i \in 2..Len(tlog) :
            tlog[i].op = "tick" =>
                IF Ordinal(i) % GivenEvery # 0
                THEN ~tlog[i].res
                ELSE tlog[i].res = (tlog[i].now - Since(i - 1) >= interval)

\* With every 2 and a positive interval that has elapsed, the first Tick() is
\* false and the second true; after a Reset() the next two are false.
C31_Witness ==
    /\ tkind = "batch" /\ TSequential
    /\ every = 2 /\ interval > 0
    /\ Len(tlog) = 6
    /\ tlog[2].op = "tick" /\ ~tlog[2].res
    /\ tlog[3].op = "tick" /\ tlog[3].res
    /\ tlog[4].op = "reset" /\ tlog[4].now - tlog[3].now >= interval
    /\ tlog[5].op = "tick" /\ ~tlog[5].res
    /\ tlog[6].op = "tick" /\ ~tlog[6].res

\* NewBatch was given an every below 1, and every Tick() has consulted the
\* clock: the second returned true.
C31_WitnessBelowOne ==
    /\ tkind = "batch" /\ TSequential
    /\ tlog[1].every < 1
    /\ Len(tlog) = 3
    /\ tlog[2].op = "tick" /\ tlog[3].op = "tick" /\ tlog[3].res
    /\ consulted = 2

\* C32: while one producer and one consumer run Push and Pop, every Len()
\* call, of any goroutine, returns a value from 0 to Cap().
C32_LenInRange ==
    \A t \in Threads :
        ret[t].op = "len" => (0 <= ret[t].val /\ ret[t].val <= BufLen)

\* The slots that hold a value pushed and not yet popped.
UnreadSlots == {Slot(c, mask) : c \in tail..(head - 1)}

HeadOverflowed == head < tail

\* C34: while head has overflowed its width and tail has not, Push decides
\* full and Pop decides empty by the occupied count head - tail modulo 2^w:
\* Push finds the buffer full only when N values are queued, Pop finds it
\* empty only when none is, and the values popped are a prefix of those
\* pushed.
C34_OverflowSafe ==
    [][HeadOverflowed =>
          /\ \A t \in Threads :
                /\ (pc[t] = "push_load_tail" /\ pc'[t] # pc[t])
                      => (pc'[t] = "push_ret_false" <=> Sub64(head, tail) = BufLen)
                /\ (pc[t] = "pop_load_head" /\ pc'[t] # pc[t])
                      => (pc'[t] = "pop_ret_false" <=> Sub64(head, tail) = 0)
          /\ Len(popped) <= Len(pushed)
          /\ \A i \in 1..Len(popped) : popped[i] = pushed[i]]_vars

\* C35: for every int size, 0 and the negative ones too, NewRingBuffer(size)
\* ends, and the buffer it returns has a power of two >= 1 as its Cap().
C35_Terminates ==
    <>(ctor.pc = "done" /\ BufLen >= 1 /\ IsPow2(BufLen))

\* Goroutine t was turned away by the guard of op in its last call.
Rejected(t, op) == ret[t].op = op /\ ret[t].panic

\* C36: a Push turned away by the guard stores nothing: the push flag stays 1
\* for the call in progress, so a further Push that overlaps it is turned
\* away too, and head, tail and the slots are as they were; when the call in
\* progress returns the flag is 0, and the next Push, of a goroutine turned
\* away before too, gets in and finds head, tail and the slots as that call
\* left them. The same for Pop.
C36_RejectedLeavesFlag ==
    [][\A t \in Threads :
          /\ (pc[t] = "idle" /\ pc' = pc /\ PushExit(t))
                => /\ pushActive = 1 /\ pushActive' = 1
                   /\ InPush # {}
                   /\ UNCHANGED <<head, tail, buf>>
          /\ (pc[t] = "idle" /\ pc' = pc /\ PopExit(t))
                => /\ popActive = 1 /\ popActive' = 1
                   /\ InPop # {}
                   /\ UNCHANGED <<head, tail, buf>>
          /\ PushReturn(t)
                => /\ pushActive' = 0 /\ InPush' = {}
                   /\ UNCHANGED <<head, tail, buf>>
          /\ PopReturn(t)
                => /\ popActive' = 0 /\ InPop' = {}
                   /\ UNCHANGED <<head, tail, buf>>
          /\ (pushActive = 0 /\ pc[t] = "idle" /\ \E v \in Values : PushGuard(t, v))
                => (pc'[t] = "push_load_head" /\ UNCHANGED <<head, tail, buf>>)
          /\ (popActive = 0 /\ pc[t] = "idle" /\ PopGuard(t))
                => (pc'[t] = "pop_load_tail" /\ UNCHANGED <<head, tail, buf>>)]_vars

\* A goroutine whose Push was turned away is inside Push now: the Push that
\* was in progress then has returned true and its value is in the buffer.
C36_Witness ==
    \E t, u \in Threads :
        /\ t # u
        /\ Rejected(t, "push")
        /\ pc[t] \in PushBody
        /\ pc[u] = "idle"
        /\ ret[u].op = "push" /\ ret[u].ok
        /\ head = 1

\* Two goroutines have been turned away by the guard of the Push a third
\* one is inside.
C36_WitnessThird ==
    \E t, u, w \in Threads :
        /\ t # u /\ u # w /\ t # w
        /\ Rejected(t, "push")
        /\ Rejected(u, "push")
        /\ pc[w] \in PushBody
        /\ pushActive = 1

\* C37: the guard turns away only a call that overlaps another of its role:
\* when the Push calls of different goroutines follow one another without
\* overlapping, and the Pop calls likewise, no call panics, and each flag is
\* 1 exactly while a call of its role is inside.
C37_NoFalsePositive ==
    /\ \A t \in Threads : ~ret[t].panic
    /\ pushActive = 1 <=> InPush # {}
    /\ popActive = 1 <=> InPop # {}

\* Every goroutine has ended a Push, one after the other, and none was
\* turned away.
C37_Witness ==
    /\ AllPushed
    /\ \A t \in Threads : ~ret[t].panic
    /\ \A t \in Threads : pc[t] = "idle"
    /\ pushActive = 0

\* Goroutines call Tick() on an AtomicTicker concurrently; nobody calls
\* Reset().
TicksOnly == tkind = "atomic" /\ ~TSequential

\* lastTick does not go down in this step; if the step ends a Tick() that
\* returns true it raises lastTick by interval or more; and of two true
\* Tick() calls the later has a reading at least interval above the earlier.
TicksApart ==
    /\ lastTick' >= lastTick
    /\ (Len(tlog') > Len(tlog) /\ tlog'[Len(tlog')].res)
          => lastTick' >= lastTick + interval
    /\ \A i \in 1..Len(tlog') : \A j \in 1..Len(tlog') :
          (i < j /\ tlog'[i].res /\ tlog'[j].res)
              => tlog'[j].now - tlog'[i].now >= interval

\* C38 as stated: for an AtomicTicker called concurrently by several
\* goroutines with no Reset, lastTick never decreases, each true Tick raises
\* it by at least interval, and two true ticks are at least interval apart.
C38_TicksApart == [][TicksOnly => TicksApart]_vars

\* C38 amended: the same for an AtomicTicker whose interval is not negative.
C38_TicksApartNonNegative == [][(TicksOnly /\ interval >= 0) => TicksApart]_vars

\* With a positive interval two goroutines have each had a true Tick(), and
\* a Tick() whose interval had elapsed has lost the CompareAndSwap.
C38_Witness ==
    /\ TicksOnly /\ interval > 0
    /\ \E i, j, k \in 1..Len(tlog) :
          /\ i < j
          /\ tlog[i].res /\ tlog[j].res /\ tlog[i].by # tlog[j].by
          /\ ~tlog[k].res /\ tlog[k].now - tlog[k].last >= interval
====
